---- MODULE Spec2Model ----
(***************************************************************************)
(* ChatService of app/services/chat_service.py: per-session chat histories, *)
(* the response cache lookup/population around the two agent invocations,   *)
(* and session deletion/inspection.                                         *)
(*                                                                          *)
(* ChatService.chat is a coroutine run on a single-threaded event loop: the *)
(* code between two awaits runs atomically, and the handler can be          *)
(* suspended only at the two `await ...ainvoke(...)` calls.  Each chat      *)
(* request is therefore a task with a position pc:                          *)
(*   "idle"        not yet arrived                                          *)
(*   "await_rag"   suspended in rag_agent.ainvoke       (line 113)          *)
(*   "await_plain" suspended in standard_agent.ainvoke  (line 121)          *)
(*   "done"        returned a ResponseMessage                               *)
(*   "failed"      an ainvoke raised; the exception left chat()             *)
(***************************************************************************)
EXTENDS Integers, Sequences, FiniteSets, TLC

\* ---------------------------------------------------------------- bounds
\* Number of chat requests (tasks) that arrive in one behaviour.
MaxRequests == 2

Requests == 1..MaxRequests

\* Session ids a client may send to chat / delete_chat / get_chat.
ALL_CHATS == "ALL_CHATS"
SessionIds == {"a", "b"}
AdminIds == SessionIds \cup {ALL_CHATS}

\* Message texts a client may send.
Messages == {"hello"}

None == "None"

\* What rag_agent.ainvoke may return: a dict with 'output' and, optionally,
\* 'intermediate_steps' and 'sources' (raw sources are dicts or plain strings).
RagResults ==
  { [output |-> "rag1", intermediate_steps |-> <<>>, sources |-> <<>>],
    [output |-> "rag2", intermediate_steps |-> <<"step">>,
     sources |-> << [kind |-> "dict", title |-> "T", url |-> "U", content |-> "doc"],
                    [kind |-> "str", title |-> None, url |-> None, content |-> "raw"] >>] }

\* What standard_agent.ainvoke may return.
PlainResults == { [output |-> "plain1"] }

VARIABLES
  chat_histories,  \* self.chat_histories: session id -> ChatHistory object (its id)
  heap,            \* ChatHistory objects: object id -> sequence of turns
  cache,           \* chat_cache: query hash -> cached payload
  task,            \* the chat() coroutines: request -> locals and position
  last_call,       \* the delete_chat / get_chat call the latest step completed
  agent_call,      \* the AgentService.process_query coroutine: locals and position
  extraction       \* a call of AgentService._extract_sources: its input and result

vars == <<chat_histories, heap, cache, task, last_call, agent_call, extraction>>

\* ------------------------------------------------------------ ChatHistory
\* A turn.  `req` tags the turn with the request that appended it; it is not
\* part of the message content and never enters the query hash.
Turn(role, content, r) == [role |-> role, content |-> content, req |-> r]

add_user_message(h, text, r) == Append(h, Turn("user", text, r))

add_ai_message(h, text, r) == Append(h, Turn("assistant", text, r))

\* The message content of a history, without the request tags.
get_messages(h) == [i \in 1..Len(h) |-> <<h[i].role, h[i].content>>]

\* ------------------------------------------------------------- chat_cache
\* The digest over (session id, ordered history content, query), modelled as
\* collision free: the triple itself.
generate_query_hash(query, history, session_id) == <<session_id, history, query>>

get_cached_response(c, query_hash) ==
  IF query_hash \in DOMAIN c
    THEN [response |-> c[query_hash], cache_hit |-> TRUE]
    ELSE [response |-> None, cache_hit |-> FALSE]

\* Mutant of cache_response: a store replaces whatever the hash held.
cache_response_overwrites(c, query_hash, user_input, rag_response, no_rag_response, sources) ==
  (query_hash :> [rag_response |-> rag_response,
                  no_rag_response |-> no_rag_response,
                  sources |-> sources]) @@ c

\* store(fp, payload): an insert that never replaces a present entry.
cache_response(c, query_hash, user_input, rag_response, no_rag_response, sources) ==
  IF query_hash \in DOMAIN c
    THEN c
    ELSE (query_hash :> [rag_response |-> rag_response,
                         no_rag_response |-> no_rag_response,
                         sources |-> sources]) @@ c

\* ------------------------------------------------------------ ChatService
_format_sources(rag_response) ==
  [i \in 1..Len(rag_response.sources) |->
     LET source == rag_response.sources[i] IN
       IF source.kind = "dict"
         THEN [title |-> source.title, url |-> source.url, content |-> source.content]
         ELSE [title |-> None, url |-> None, content |-> source.content]]

_format_history(messages) ==
  [i \in 1..Len(messages) |-> [role |-> messages[i][1], content |-> messages[i][2]]]

NoTask ==
  [pc |-> "idle", session_id |-> None, user_input |-> None, chat_history |-> 0,
   query_hash |-> <<>>, cache_hit |-> FALSE, rag_response |-> None,
   invoked |-> {}, stored |-> FALSE, result |-> None,
   rag_history |-> <<>>, no_rag_history |-> <<>>]

NoCall == [op |-> "none", session_id |-> None, ok |-> FALSE,
           value |-> [s \in {} |-> <<>>], pre |-> {}]

\* Lines 277-282: process_query before a call.
NoQuery ==
  [pc |-> "idle", query |-> None, history |-> <<>>, use_rag |-> FALSE,
   use_dual_response |-> FALSE, rag_output |-> None, rag_steps |-> None,
   non_rag_output |-> None, sources |-> <<>>, invoked |-> {}, result |-> None]

\* Line 332: _extract_sources before a call.
NoExtraction == [pc |-> "idle", steps |-> <<>>, sources |-> <<>>]

Init ==
  /\ chat_histories = [s \in {} |-> 0]
  /\ heap = [o \in {} |-> <<>>]
  /\ cache = [f \in {} |-> None]
  /\ task = [r \in Requests |-> NoTask]
  /\ last_call = NoCall
  /\ agent_call = NoQuery
  /\ extraction = NoExtraction

\* Lines 51-54: get or create the session's ChatHistory.  A new object takes
\* the id of the request that creates it.
GetOrCreate(hs, session_id, r) ==
  IF session_id \notin DOMAIN hs THEN (session_id :> r) @@ hs ELSE hs

\* Mutant of QueryHash: the session id is left out of the hashed inputs.
QueryHashNoSession(user_input, messages, session_id) ==
  generate_query_hash(user_input, messages, None)

\* Mutant of QueryHash: the hash is derived after the user turn was appended.
QueryHashAfterAppend(user_input, messages, session_id) ==
  generate_query_hash(user_input, Append(messages, <<"user", user_input>>), session_id)

\* Mutant of QueryHash: the history is left out of the hashed inputs.
QueryHashNoHistory(user_input, messages, session_id) ==
  generate_query_hash(user_input, <<>>, session_id)

\* Lines 56-61: the query hash chat() asks the cache service for.
QueryHash(user_input, messages, session_id) ==
  generate_query_hash(user_input, messages, session_id)

\* Mutant of HitResponse: the two cached outputs are swapped and the steps
\* list is not emptied.
HitResponseSwapped(user_input, history, cached_response) ==
  [input |-> user_input,
   history |-> _format_history(get_messages(history)),
   output |-> cached_response.no_rag_response,
   no_rag_output |-> cached_response.rag_response,
   intermediate_steps |-> <<"step">>,
   sources |-> cached_response.sources]

\* Lines 82-103: the envelope of a cache hit.
HitResponse(user_input, history, cached_response) ==
  [input |-> user_input,
   history |-> _format_history(get_messages(history)),
   output |-> cached_response.rag_response,
   no_rag_output |-> cached_response.no_rag_response,
   intermediate_steps |-> <<>>,
   sources |-> cached_response.sources]

\* Mutant of HitHistory: a hit records the user turn only.
HitHistoryUserOnly(history, user_input, cached_response, r) ==
  add_user_message(history, user_input, r)

\* Lines 66-76: the history after a cache hit.
HitHistory(history, user_input, cached_response, r) ==
  add_ai_message(add_user_message(history, user_input, r),
                 cached_response.rag_response, r)

\* Lines 44-113: chat() from its entry to the return of a cache hit, or to the
\* first suspension (await rag_agent.ainvoke) of a cache miss.
ChatBegin(r, session_id, user_input) ==
  /\ task[r].pc = "idle"
  /\ \A q \in Requests : q < r => task[q].pc # "idle"
  /\ LET hs == GetOrCreate(chat_histories, session_id, r)
         o == hs[session_id]
         history == IF o \in DOMAIN heap THEN heap[o] ELSE <<>>
         query_hash == QueryHash(user_input, get_messages(history), session_id)
         looked == get_cached_response(cache, query_hash)
         mine == [task[r] EXCEPT !.session_id = session_id, !.user_input = user_input,
                                 !.chat_history = o, !.query_hash = query_hash,
                                 !.cache_hit = looked.cache_hit]
     IN /\ chat_histories' = hs
        /\ IF looked.cache_hit
             THEN LET h2 == HitHistory(history, user_input, looked.response, r) IN
                  /\ heap' = (o :> h2) @@ heap
                  /\ task' = [task EXCEPT ![r] =
                       [mine EXCEPT !.pc = "done",
                                    !.result = HitResponse(user_input, h2, looked.response)]]
             ELSE LET h1 == add_user_message(history, user_input, r) IN
                  /\ heap' = (o :> h1) @@ heap
                  /\ task' = [task EXCEPT ![r] =
                       [mine EXCEPT !.pc = "await_rag", !.invoked = {"rag"},
                                    !.rag_history = h1]]
  /\ last_call' = NoCall
  /\ UNCHANGED cache
  /\ UNCHANGED <<agent_call, extraction>>

\* Mutant of RagReturn: suspended requests are resumed in the order they
\* started, whatever their session.
RagReturnInStartOrder(r, rag_response) ==
  /\ task[r].pc = "await_rag"
  /\ \A q \in Requests : q < r => task[q].pc \notin {"await_rag", "await_plain"}
  /\ task' = [task EXCEPT ![r].pc = "await_plain", ![r].rag_response = rag_response,
                          ![r].invoked = @ \cup {"plain"},
                          ![r].no_rag_history = heap[task[r].chat_history]]
  /\ last_call' = NoCall
  /\ UNCHANGED <<chat_histories, heap, cache>>
  /\ UNCHANGED <<agent_call, extraction>>

\* Lines 113-121: rag_agent.ainvoke returns; chat() goes on to
\* await standard_agent.ainvoke, handing it chat_history.get_messages() as
\* the history is at that moment (rag_history / no_rag_history: the turns the
\* two invocations were handed).
RagReturn(r, rag_response) ==
  /\ task[r].pc = "await_rag"
  /\ task' = [task EXCEPT ![r].pc = "await_plain", ![r].rag_response = rag_response,
                          ![r].invoked = @ \cup {"plain"},
                          ![r].no_rag_history = heap[task[r].chat_history]]
  /\ last_call' = NoCall
  /\ UNCHANGED <<chat_histories, heap, cache>>
  /\ UNCHANGED <<agent_call, extraction>>

\* Mutant of RagFail: the user turn appended before the invocation is rolled
\* back when the invocation fails.
RagFailRollback(r) ==
  /\ task[r].pc = "await_rag"
  /\ task' = [task EXCEPT ![r].pc = "failed", ![r].result = "error"]
  /\ heap' = [heap EXCEPT ![task[r].chat_history] =
                SelectSeq(@, LAMBDA t : t.req # r)]
  /\ last_call' = NoCall
  /\ UNCHANGED <<chat_histories, cache>>
  /\ UNCHANGED <<agent_call, extraction>>

\* Line 113: rag_agent.ainvoke raises; the exception propagates out of chat().
RagFail(r) ==
  /\ task[r].pc = "await_rag"
  /\ task' = [task EXCEPT ![r].pc = "failed", ![r].result = "error"]
  /\ last_call' = NoCall
  /\ UNCHANGED <<chat_histories, heap, cache>>
  /\ UNCHANGED <<agent_call, extraction>>

\* Lines 137-169: the envelope of a cache miss.
MissResponse(user_input, history, rag_response, no_rag_response, sources) ==
  [input |-> user_input,
   history |-> _format_history(get_messages(history)),
   output |-> rag_response.output,
   no_rag_output |-> no_rag_response.output,
   intermediate_steps |-> rag_response.intermediate_steps,
   sources |-> sources]

\* Mutant of PlainReturn: on completion chat() puts its ChatHistory object
\* back into self.chat_histories under its session id.
PlainReturnRelinks(r, no_rag_response) ==
  /\ task[r].pc = "await_plain"
  /\ LET t == task[r]
         sources == _format_sources(t.rag_response)
         h2 == add_ai_message(heap[t.chat_history], t.rag_response.output, r)
     IN /\ heap' = [heap EXCEPT ![t.chat_history] = h2]
        /\ chat_histories' = (t.session_id :> t.chat_history) @@ chat_histories
        /\ cache' = cache_response(cache, t.query_hash, t.user_input,
                                   t.rag_response.output, no_rag_response.output, sources)
        /\ task' = [task EXCEPT ![r].pc = "done",
                                ![r].stored = t.query_hash \notin DOMAIN cache,
                                ![r].result = MissResponse(t.user_input, h2, t.rag_response,
                                                           no_rag_response, sources)]
  /\ last_call' = NoCall
  /\ UNCHANGED <<agent_call, extraction>>

\* Mutant of PlainReturn: chat() appends the assistant turn and suspends once
\* more before it stores the response.
PlainReturnAppendOnly(r, no_rag_response) ==
  /\ task[r].pc = "await_plain"
  /\ heap' = [heap EXCEPT ![task[r].chat_history] =
                add_ai_message(@, task[r].rag_response.output, r)]
  /\ task' = [task EXCEPT ![r].pc = "await_store"]
  /\ last_call' = NoCall
  /\ UNCHANGED <<chat_histories, cache>>
  /\ UNCHANGED <<agent_call, extraction>>

\* Lines 121-169: standard_agent.ainvoke returns; chat() appends the assistant
\* turn to its ChatHistory object, caches the response and returns.
PlainReturn(r, no_rag_response) ==
  /\ task[r].pc = "await_plain"
  /\ LET t == task[r]
         sources == _format_sources(t.rag_response)
         h2 == add_ai_message(heap[t.chat_history], t.rag_response.output, r)
     IN /\ heap' = [heap EXCEPT ![t.chat_history] = h2]
        /\ cache' = cache_response(cache, t.query_hash, t.user_input,
                                   t.rag_response.output, no_rag_response.output, sources)
        /\ task' = [task EXCEPT ![r].pc = "done",
                                ![r].stored = t.query_hash \notin DOMAIN cache,
                                ![r].result = MissResponse(t.user_input, h2, t.rag_response,
                                                           no_rag_response, sources)]
  /\ last_call' = NoCall
  /\ UNCHANGED chat_histories
  /\ UNCHANGED <<agent_call, extraction>>

\* Mutant of PlainFail: the partial result (the augmented output alone) is
\* cached before the exception leaves chat().
PlainFailCachesPartial(r) ==
  /\ task[r].pc = "await_plain"
  /\ task' = [task EXCEPT ![r].pc = "failed", ![r].result = "error"]
  /\ cache' = cache_response(cache, task[r].query_hash, task[r].user_input,
                             task[r].rag_response.output, None,
                             _format_sources(task[r].rag_response))
  /\ last_call' = NoCall
  /\ UNCHANGED <<chat_histories, heap>>
  /\ UNCHANGED <<agent_call, extraction>>

\* Line 121: standard_agent.ainvoke raises; the exception propagates.
PlainFail(r) ==
  /\ task[r].pc = "await_plain"
  /\ task' = [task EXCEPT ![r].pc = "failed", ![r].result = "error"]
  /\ last_call' = NoCall
  /\ UNCHANGED <<chat_histories, heap, cache>>
  /\ UNCHANGED <<agent_call, extraction>>

\* Mutant of delete_chat: a single-session delete reports success without
\* looking the session up, and leaves the entry in place.
delete_chat_no_lookup(hs, c, session_id) ==
  IF session_id = ALL_CHATS
    THEN [ret |-> TRUE, chat_histories |-> [s \in {} |-> 0], cache |-> c]
    ELSE [ret |-> TRUE, chat_histories |-> hs, cache |-> c]

\* Mutant of delete_chat: ALL_CHATS reports whether anything was deleted.
delete_chat_all_reports(hs, c, session_id) ==
  IF session_id = ALL_CHATS
    THEN [ret |-> DOMAIN hs # {}, chat_histories |-> [s \in {} |-> 0], cache |-> c]
    ELSE IF session_id \in DOMAIN hs
      THEN [ret |-> TRUE,
            chat_histories |-> [s \in DOMAIN hs \ {session_id} |-> hs[s]],
            cache |-> c]
      ELSE [ret |-> FALSE, chat_histories |-> hs, cache |-> c]

\* Mutant of delete_chat: deleting a session also evicts the cache entries
\* whose query hash was derived for it.
delete_chat_evicts(hs, c, session_id) ==
  IF session_id = ALL_CHATS
    THEN [ret |-> TRUE, chat_histories |-> [s \in {} |-> 0],
          cache |-> [f \in {} |-> None]]
    ELSE IF session_id \in DOMAIN hs
      THEN [ret |-> TRUE,
            chat_histories |-> [s \in DOMAIN hs \ {session_id} |-> hs[s]],
            cache |-> [f \in {g \in DOMAIN c : g[1] # session_id} |-> c[f]]]
      ELSE [ret |-> FALSE, chat_histories |-> hs, cache |-> c]

\* Lines 171-188: the return value of delete_chat and the service state it
\* leaves (hs: self.chat_histories, c: the response cache).
delete_chat(hs, c, session_id) ==
  IF session_id = ALL_CHATS
    THEN [ret |-> TRUE, chat_histories |-> [s \in {} |-> 0], cache |-> c]
    ELSE IF session_id \in DOMAIN hs
      THEN [ret |-> TRUE,
            chat_histories |-> [s \in DOMAIN hs \ {session_id} |-> hs[s]],
            cache |-> c]
      ELSE [ret |-> FALSE, chat_histories |-> hs, cache |-> c]

DeleteChat(session_id) ==
  LET d == delete_chat(chat_histories, cache, session_id) IN
  /\ chat_histories' = d.chat_histories
  /\ cache' = d.cache
  /\ last_call' = [op |-> "delete", session_id |-> session_id, ok |-> d.ret,
                   value |-> [s \in {} |-> <<>>], pre |-> DOMAIN chat_histories]
  /\ UNCHANGED <<heap, task>>
  /\ UNCHANGED <<agent_call, extraction>>

\* Lines 190-205: get_chat returns the whole mapping, one session's history,
\* or None (found = FALSE).
get_chat(hs, hp, session_id) ==
  IF session_id = ALL_CHATS
    THEN [found |-> TRUE, value |-> [s \in DOMAIN hs |-> hp[hs[s]]]]
    ELSE IF session_id \in DOMAIN hs
      THEN [found |-> TRUE, value |-> (session_id :> hp[hs[session_id]])]
      ELSE [found |-> FALSE, value |-> [s \in {} |-> <<>>]]

GetChat(session_id) ==
  LET g == get_chat(chat_histories, heap, session_id) IN
  /\ last_call' = [op |-> "get", session_id |-> session_id, ok |-> g.found,
                   value |-> g.value, pre |-> DOMAIN chat_histories]
  /\ UNCHANGED <<chat_histories, heap, cache, task>>
  /\ UNCHANGED <<agent_call, extraction>>

Next ==
  \/ \E r \in Requests, s \in SessionIds, m \in Messages : ChatBegin(r, s, m)
  \/ \E r \in Requests, res \in RagResults : RagReturn(r, res)
  \/ \E r \in Requests : RagFail(r)
  \/ \E r \in Requests, res \in PlainResults : PlainReturn(r, res)
  \/ \E r \in Requests : PlainFail(r)
  \/ \E s \in AdminIds : DeleteChat(s)
  \/ \E s \in AdminIds : GetChat(s)

Spec == Init /\ [][Next]_vars

\* The service when no client ever calls delete_chat.
NextNoDelete ==
  \/ \E r \in Requests, s \in SessionIds, m \in Messages : ChatBegin(r, s, m)
  \/ \E r \in Requests, res \in RagResults : RagReturn(r, res)
  \/ \E r \in Requests : RagFail(r)
  \/ \E r \in Requests, res \in PlainResults : PlainReturn(r, res)
  \/ \E r \in Requests : PlainFail(r)
  \/ \E s \in AdminIds : GetChat(s)

SpecNoDelete == Init /\ [][NextNoDelete]_vars

\* The service when clients may send any session id to chat, the reserved
\* "ALL_CHATS" included: chat() reads data.session_id without checking it.
NextAnyId ==
  \/ \E r \in Requests, s \in AdminIds, m \in Messages : ChatBegin(r, s, m)
  \/ \E r \in Requests, res \in RagResults : RagReturn(r, res)
  \/ \E r \in Requests : RagFail(r)
  \/ \E r \in Requests, res \in PlainResults : PlainReturn(r, res)
  \/ \E r \in Requests : PlainFail(r)
  \/ \E s \in AdminIds : DeleteChat(s)
  \/ \E s \in AdminIds : GetChat(s)

SpecAnyId == Init /\ [][NextAnyId]_vars

\* ----------------------------------------------------------- AgentService
\* Longest intermediate-steps list handed to _extract_sources.
MaxSteps == 5

\* Line 335: the tool whose results carry documents.
RetrievalTool == "search_msquared_docs"

\* Documents as the retrieval tool returns them: page_content plus a metadata
\* dict that may be None (has_metadata = FALSE) or lack a key.
NoMetadata == [k \in {} |-> None]
Doc1 == [has_metadata |-> TRUE, metadata |-> ("title" :> "T1") @@ ("url" :> "U1"),
         page_content |-> "c1"]
Doc2 == [has_metadata |-> FALSE, metadata |-> NoMetadata, page_content |-> "c2"]
Doc3 == [has_metadata |-> TRUE, metadata |-> ("title" :> "T3"), page_content |-> "c3"]

\* Intermediate steps an agent run may report: (action, result) tuples.  A
\* result is a dict (with or without a "documents" list) or plain text.
RetrievalStep ==
  << [tool |-> RetrievalTool],
     [kind |-> "dict", has_documents |-> TRUE, documents |-> <<Doc1, Doc2, Doc3>>] >>
OneDocStep ==
  << [tool |-> RetrievalTool],
     [kind |-> "dict", has_documents |-> TRUE, documents |-> <<Doc3>>] >>
NoDocumentsStep ==
  << [tool |-> RetrievalTool],
     [kind |-> "dict", has_documents |-> FALSE, documents |-> <<>>] >>
TextStep ==
  << [tool |-> RetrievalTool],
     [kind |-> "str", has_documents |-> FALSE, documents |-> <<>>] >>
OtherToolStep ==
  << [tool |-> "calculator"],
     [kind |-> "dict", has_documents |-> TRUE, documents |-> <<Doc1>>] >>
ShortStep == << [tool |-> RetrievalTool] >>

StepKinds ==
  {RetrievalStep, OneDocStep, NoDocumentsStep, TextStep, OtherToolStep, ShortStep}

StepLists == UNION {[1..n -> StepKinds] : n \in 0..MaxSteps}

\* Lines 339-344: the Source built from one document.
SourceOf(doc) ==
  LET metadata == IF doc.has_metadata THEN doc.metadata ELSE NoMetadata IN
  [title |-> IF "title" \in DOMAIN metadata THEN metadata["title"] ELSE None,
   url |-> IF "url" \in DOMAIN metadata THEN metadata["url"] ELSE None,
   content |-> doc.page_content]

\* Mutant of StepSources: the tool name is not compared.
StepSourcesAnyTool(step) ==
  IF Len(step) > 1 /\ step[2].kind = "dict"
    THEN LET docs == IF step[2].has_documents THEN step[2].documents ELSE <<>> IN
         [j \in 1..Len(docs) |-> SourceOf(docs[j])]
    ELSE <<>>

\* Lines 335-345: the Sources one step contributes.
StepSources(step) ==
  IF Len(step) > 1 /\ step[1].tool = RetrievalTool /\ step[2].kind = "dict"
    THEN LET docs == IF step[2].has_documents THEN step[2].documents ELSE <<>> IN
         [j \in 1..Len(docs) |-> SourceOf(docs[j])]
    ELSE <<>>

\* Lines 321-347: the loop over the steps.
RECURSIVE _extract_sources(_)
_extract_sources(steps) ==
  IF Len(steps) = 0 THEN <<>>
  ELSE StepSources(Head(steps)) \o _extract_sources(Tail(steps))

\* A call of _extract_sources on any list of steps.
InitExtract ==
  /\ chat_histories = [s \in {} |-> 0]
  /\ heap = [o \in {} |-> <<>>]
  /\ cache = [f \in {} |-> None]
  /\ task = [r \in Requests |-> NoTask]
  /\ last_call = NoCall
  /\ agent_call = NoQuery
  /\ extraction \in {[pc |-> "called", steps |-> st, sources |-> <<>>] : st \in StepLists}

ExtractSources ==
  /\ extraction.pc = "called"
  /\ extraction' = [extraction EXCEPT !.pc = "returned",
                                      !.sources = _extract_sources(extraction.steps)]
  /\ UNCHANGED <<chat_histories, heap, cache, task, last_call, agent_call>>

NextExtract == ExtractSources

SpecExtract == InitExtract /\ [][NextExtract]_vars

\* What the two agents may return to process_query: the augmented agent
\* reports its intermediate steps.
AgentRagResults ==
  { [output |-> "rag1", intermediate_steps |-> <<>>],
    [output |-> "rag2", intermediate_steps |-> <<RetrievalStep, OtherToolStep>>] }

AgentPlainResults == { [output |-> "plain1"] }

\* Histories a caller may hand to process_query (None becomes []).
QueryHistories == { <<>>, << <<"user", "hi">> >> }

\* Lines 303-319: the envelope process_query returns.
QueryResponse(c) ==
  LET primary_output == IF c.use_rag THEN c.rag_output ELSE c.non_rag_output
      secondary_output == IF c.use_rag /\ c.use_dual_response
                            THEN c.non_rag_output ELSE None
  IN [input |-> c.query,
      history |-> c.history,
      output |-> primary_output,
      no_rag_output |-> secondary_output,
      intermediate_steps |-> IF c.use_rag THEN c.rag_steps ELSE <<>>,
      sources |-> c.sources]

\* Mutant of QueryBegin: process_query shares the response cache and returns
\* an entry chat() stored for the same query and history.
QueryBeginSharesCache(q, history, use_rag, use_dual_response) ==
  /\ agent_call.pc \in {"idle", "done", "failed"}
  /\ LET c == [NoQuery EXCEPT !.query = q, !.history = history, !.use_rag = use_rag,
                              !.use_dual_response = use_dual_response]
         found == {f \in DOMAIN cache : f[2] = history /\ f[3] = q}
     IN IF found # {}
          THEN LET cached == cache[CHOOSE f \in found : TRUE] IN
               agent_call' = [c EXCEPT !.pc = "done",
                                       !.rag_output = cached.rag_response,
                                       !.non_rag_output = cached.no_rag_response,
                                       !.result = [input |-> q, history |-> history,
                                                   output |-> cached.rag_response,
                                                   no_rag_output |-> cached.no_rag_response,
                                                   intermediate_steps |-> <<>>,
                                                   sources |-> cached.sources]]
          ELSE IF use_rag \/ use_dual_response
            THEN agent_call' = [c EXCEPT !.pc = "await_rag", !.invoked = {"rag"}]
            ELSE agent_call' = [c EXCEPT !.pc = "await_plain", !.invoked = {"plain"}]
  /\ UNCHANGED <<chat_histories, heap, cache, task, last_call, extraction>>

\* Lines 277-297: process_query from its entry to its first suspension: in
\* rag_agent.ainvoke if use_rag or use_dual_response, else in
\* standard_agent.ainvoke.
QueryBegin(q, history, use_rag, use_dual_response) ==
  /\ agent_call.pc \in {"idle", "done", "failed"}
  /\ LET c == [NoQuery EXCEPT !.query = q, !.history = history, !.use_rag = use_rag,
                              !.use_dual_response = use_dual_response]
     IN IF use_rag \/ use_dual_response
          THEN agent_call' = [c EXCEPT !.pc = "await_rag", !.invoked = {"rag"}]
          ELSE agent_call' = [c EXCEPT !.pc = "await_plain", !.invoked = {"plain"}]
  /\ UNCHANGED <<chat_histories, heap, cache, task, last_call, extraction>>

\* Lines 284-319: rag_agent.ainvoke returns; the sources are extracted, and
\* process_query either goes on to standard_agent.ainvoke or returns.
QueryRagReturn(rag_result) ==
  /\ agent_call.pc = "await_rag"
  /\ LET c == [agent_call EXCEPT !.rag_output = rag_result.output,
                                 !.rag_steps = rag_result.intermediate_steps,
                                 !.sources = _extract_sources(rag_result.intermediate_steps)]
     IN IF ~c.use_rag \/ c.use_dual_response
          THEN agent_call' = [c EXCEPT !.pc = "await_plain", !.invoked = @ \cup {"plain"}]
          ELSE agent_call' = [c EXCEPT !.pc = "done", !.result = QueryResponse(c)]
  /\ UNCHANGED <<chat_histories, heap, cache, task, last_call, extraction>>

\* Line 284: rag_agent.ainvoke raises; the exception leaves process_query.
QueryRagFail ==
  /\ agent_call.pc = "await_rag"
  /\ agent_call' = [agent_call EXCEPT !.pc = "failed", !.result = "error"]
  /\ UNCHANGED <<chat_histories, heap, cache, task, last_call, extraction>>

\* Lines 297-319: standard_agent.ainvoke returns; process_query returns.
QueryPlainReturn(non_rag_result) ==
  /\ agent_call.pc = "await_plain"
  /\ LET c == [agent_call EXCEPT !.non_rag_output = non_rag_result.output]
     IN agent_call' = [c EXCEPT !.pc = "done", !.result = QueryResponse(c)]
  /\ UNCHANGED <<chat_histories, heap, cache, task, last_call, extraction>>

\* Line 297: standard_agent.ainvoke raises.
QueryPlainFail ==
  /\ agent_call.pc = "await_plain"
  /\ agent_call' = [agent_call EXCEPT !.pc = "failed", !.result = "error"]
  /\ UNCHANGED <<chat_histories, heap, cache, task, last_call, extraction>>

\* chat() requests and process_query calls side by side.
NextQuery ==
  \/ \E r \in Requests, s \in SessionIds, m \in Messages : ChatBegin(r, s, m)
  \/ \E r \in Requests, res \in RagResults : RagReturn(r, res)
  \/ \E r \in Requests : RagFail(r)
  \/ \E r \in Requests, res \in PlainResults : PlainReturn(r, res)
  \/ \E r \in Requests : PlainFail(r)
  \/ \E q \in Messages, h \in QueryHistories, use_rag \in BOOLEAN,
        use_dual_response \in BOOLEAN : QueryBegin(q, h, use_rag, use_dual_response)
  \/ \E res \in AgentRagResults : QueryRagReturn(res)
  \/ QueryRagFail
  \/ \E res \in AgentPlainResults : QueryPlainReturn(res)
  \/ QueryPlainFail

SpecQuery == Init /\ [][NextQuery]_vars

\* ================================================================ claims
Started(r) == task[r].pc # "idle"

\* The requests that have arrived for session s.
RequestsOf(s) == {r \in Requests : Started(r) /\ task[r].session_id = s}

\* Turn i of h is a user turn directly followed by the same request's
\* assistant turn.
PairAt(h, i) ==
  /\ i + 1 <= Len(h)
  /\ h[i].role = "user"
  /\ h[i + 1].role = "assistant"
  /\ h[i + 1].req = h[i].req

\* C1: when N requests for one session have all returned successfully and no
\* session was deleted, the session's history has length 2N and consists of
\* N contiguous (user turn, assistant turn) pairs, each pair from one request.
C1_HistoryPairsContiguous ==
  \A s \in DOMAIN chat_histories :
    LET h == heap[chat_histories[s]] IN
    (\A r \in RequestsOf(s) : task[r].pc = "done") =>
      /\ Len(h) = 2 * Cardinality(RequestsOf(s))
      /\ \A i \in 1..Len(h) : i % 2 = 1 => PairAt(h, i)

\* The history of session s as the next chat request for s would read it.
CurrentMessages(s) ==
  IF s \in DOMAIN chat_histories THEN get_messages(heap[chat_histories[s]]) ELSE <<>>

\* The step in which request r's generator invocation fails.
FailStep(r) == task[r].pc \in {"await_rag", "await_plain"} /\ task'[r].pc = "failed"

\* C2 as stated: after a generator invocation of request r failed, a further
\* request with r's (session_id, message) that derives the hash r derived is
\* a cache miss.
C2_FailedRequestStaysMiss ==
  \A r \in Requests :
    LET again == QueryHash(task[r].user_input, CurrentMessages(task[r].session_id),
                           task[r].session_id) IN
    (task[r].pc = "failed" /\ again = task[r].query_hash) =>
      ~get_cached_response(cache, again).cache_hit

\* Every cache entry was stored by a request that returned successfully from
\* a miss; a failed request stored nothing.
StoredBySuccess ==
  /\ \A f \in DOMAIN cache :
       \E q \in Requests :
         /\ task[q].pc = "done" /\ ~task[q].cache_hit /\ task[q].stored
         /\ task[q].query_hash = f
         /\ cache[f].rag_response = task[q].rag_response.output
  /\ \A r \in Requests : task[r].pc = "failed" => ~task[r].stored

\* C2 amended: the step in which a generator invocation fails leaves the cache
\* unchanged, and every cache entry comes from a request both of whose
\* invocations succeeded; so a later identical request hits only on an entry
\* some successful request stored.
C2_FailureStoresNothing ==
  [][/\ \A r \in Requests : FailStep(r) => cache' = cache
     /\ StoredBySuccess']_vars

\* C2 witness: the plain invocation failed after the augmented one succeeded,
\* and the failed request's hash has no entry.
C2_Witness ==
  \E r \in Requests :
    /\ task[r].pc = "failed"
    /\ task[r].invoked = {"rag", "plain"}
    /\ task[r].query_hash \notin DOMAIN cache
\* C3: a payload stored under a query hash never changes: in every step, a
\* hash present before and after the step holds the same payload.
C3_CachedPayloadNeverChanges ==
  [][\A f \in DOMAIN cache : f \in DOMAIN cache' => cache'[f] = cache[f]]_vars

\* C3 witness: a request that missed reached the store step after another
\* request had stored a different augmented output under the same hash.
C3_Witness ==
  \E r \in Requests :
    /\ task[r].pc = "done" /\ ~task[r].cache_hit /\ ~task[r].stored
    /\ task[r].query_hash \in DOMAIN cache
    /\ cache[task[r].query_hash].rag_response # task[r].rag_response.output

\* The step in which request r arrives.
BeginStep(r) == task[r].pc = "idle" /\ task'[r].pc # "idle"

\* C4: a request that finds its hash in the cache invokes neither generator
\* and returns the cached augmented output, plain output and sources with an
\* empty intermediate-steps list.
C4_HitBypassesGeneration ==
  [][\A r \in Requests :
       (BeginStep(r) /\ task'[r].query_hash \in DOMAIN cache) =>
         LET cached == cache[task'[r].query_hash] IN
         /\ task'[r].cache_hit /\ task'[r].pc = "done"
         /\ task'[r].invoked = {}
         /\ task'[r].result.input = task'[r].user_input
         /\ task'[r].result.output = cached.rag_response
         /\ task'[r].result.no_rag_output = cached.no_rag_response
         /\ task'[r].result.sources = cached.sources
         /\ task'[r].result.intermediate_steps = <<>>]_vars

\* C4 witness: a request was served from the cache, with cached sources.
C4_Witness ==
  \E r \in Requests :
    /\ task[r].pc = "done" /\ task[r].cache_hit
    /\ task[r].result.sources # <<>>

\* The history request r found when it arrived (empty for a new session).
FoundHistory(r) ==
  LET s == task'[r].session_id IN
  IF s \in DOMAIN chat_histories THEN heap[chat_histories[s]] ELSE <<>>

\* C5: a cache hit extends the session history by exactly two turns: the
\* user's message, then the cached augmented output as an assistant turn.
C5_HitAppendsTwoTurns ==
  [][\A r \in Requests :
       (BeginStep(r) /\ task'[r].cache_hit) =>
         LET s == task'[r].session_id
             h == heap'[chat_histories'[s]]
             n == Len(FoundHistory(r)) IN
         /\ Len(h) = n + 2
         /\ SubSeq(h, 1, n) = FoundHistory(r)
         /\ h[n + 1] = Turn("user", task'[r].user_input, r)
         /\ h[n + 2] = Turn("assistant", cache[task'[r].query_hash].rag_response, r)]_vars

\* C5 witness: a session whose history ends with the two turns of a hit.
C5_Witness ==
  \E s \in DOMAIN chat_histories, r \in Requests :
    LET h == heap[chat_histories[s]] IN
    /\ task[r].cache_hit /\ task[r].session_id = s
    /\ Len(h) >= 2
    /\ h[Len(h)].req = r /\ h[Len(h)].role = "assistant"
    /\ h[Len(h) - 1].req = r /\ h[Len(h) - 1].role = "user"

\* The turns request r appended to the ChatHistory object it works on.
TurnsOf(r, role) ==
  LET h == heap[task[r].chat_history] IN
  {i \in 1..Len(h) : h[i].req = r /\ h[i].role = role}

\* C6: when a generator invocation fails, the histories are left as they are
\* (the user turn appended before the invocation stays), the request never
\* gets an assistant turn, and chat() ends with the failure.
C6_FailureKeepsUserTurn ==
  [][/\ \A r \in Requests :
          FailStep(r) =>
            /\ heap' = heap /\ chat_histories' = chat_histories
            /\ task'[r].result = "error"
     /\ \A r \in Requests :
          task'[r].pc = "failed" =>
            /\ Cardinality(TurnsOf(r, "user")') = 1
            /\ TurnsOf(r, "assistant")' = {}]_vars

\* C6 witness: a failed request whose user turn is the last turn of the
\* history its session still has.
C6_Witness ==
  \E r \in Requests :
    /\ task[r].pc = "failed"
    /\ task[r].session_id \in DOMAIN chat_histories
    /\ chat_histories[task[r].session_id] = task[r].chat_history
    /\ LET h == heap[task[r].chat_history] IN
         h[Len(h)] = Turn("user", task[r].user_input, r)

\* C7: session isolation.  A session's history holds only turns of requests
\* addressed to it, requests of different sessions derive different hashes,
\* and a request is never served from an entry a request of another session
\* stored.
C7_SessionIsolation ==
  /\ \A s \in DOMAIN chat_histories :
       LET h == heap[chat_histories[s]] IN
       \A i \in 1..Len(h) : task[h[i].req].session_id = s
  /\ \A r, q \in Requests :
       (Started(r) /\ Started(q) /\ task[r].session_id # task[q].session_id) =>
         task[r].query_hash # task[q].query_hash
  /\ \A r, q \in Requests :
       (Started(r) /\ task[r].cache_hit /\ task[q].stored
          /\ task[q].query_hash = task[r].query_hash) =>
         task[q].session_id = task[r].session_id

\* C7 witness: sessions a and b both sent "hello" on an empty history; there
\* are two cache entries and two histories of length 2.
C7_Witness ==
  /\ DOMAIN chat_histories = {"a", "b"}
  /\ \A s \in {"a", "b"} : Len(heap[chat_histories[s]]) = 2
  /\ \A r \in {1, 2} : task[r].user_input = "hello" /\ task[r].stored
  /\ Cardinality(DOMAIN cache) = 2

\* C8: delete_chat(s) for a non-sentinel s returns true exactly when s had an
\* entry at the call; after true, get_chat(s) is None and a repeated
\* delete_chat(s) returns false; a failing call leaves the store unchanged.
C8_DeleteSession ==
  [][(last_call'.op = "delete" /\ last_call'.session_id # ALL_CHATS) =>
       LET s == last_call'.session_id
           again == delete_chat(chat_histories', cache', s) IN
       /\ last_call'.ok = (s \in DOMAIN chat_histories)
       /\ last_call'.ok =>
            /\ ~get_chat(chat_histories', heap', s).found
            /\ ~again.ret
            /\ again.chat_histories = chat_histories'
       /\ ~last_call'.ok => chat_histories' = chat_histories]_vars

\* C8 witness: a session that held a completed exchange was deleted.
C8_Witness ==
  /\ last_call.op = "delete" /\ last_call.session_id = "a" /\ last_call.ok
  /\ "a" \notin DOMAIN chat_histories
  /\ \E r \in Requests : task[r].pc = "done" /\ task[r].session_id = "a"

\* C9: delete_chat(ALL_CHATS) returns true and leaves no session entry.
C9_DeleteAll ==
  (last_call.op = "delete" /\ last_call.session_id = ALL_CHATS) =>
    /\ last_call.ok
    /\ DOMAIN chat_histories = {}

\* C9 witness: ALL_CHATS was deleted on a store that was already empty.
C9_Witness ==
  /\ last_call.op = "delete" /\ last_call.session_id = ALL_CHATS
  /\ last_call.pre = {} /\ last_call.ok
  /\ \E r \in Requests : Started(r)

\* C10: a session deletion leaves the response cache as it was.
C10_DeleteKeepsCache ==
  [][last_call'.op = "delete" => cache' = cache]_vars

\* C10 witness: a session was deleted while the cache held an entry derived
\* for it.
C10_Witness ==
  /\ last_call.op = "delete" /\ last_call.ok
  /\ \E f \in DOMAIN cache : f[1] \in last_call.pre
\* C11: the session store never holds a history keyed by the reserved
\* sentinel "ALL_CHATS", whatever session ids are passed to chat.
C11_SentinelNeverStored == ALL_CHATS \notin DOMAIN chat_histories
\* A step counts for citations: it pairs the retrieval tool with a dict result.
IsRetrievalResult(step) ==
  /\ Len(step) > 1
  /\ step[1].tool = RetrievalTool
  /\ step[2].kind = "dict"

DocumentsOf(step) == IF IsRetrievalResult(step) THEN step[2].documents ELSE <<>>

\* The number of documents of the retrieval results among the first n steps.
RECURSIVE DocumentsBefore(_, _)
DocumentsBefore(steps, n) ==
  IF n = 0 THEN 0
  ELSE DocumentsBefore(steps, n - 1) + Len(DocumentsOf(steps[n]))

\* C13: _extract_sources returns one Source per document of each retrieval
\* step with a dict result, in step order then document order, and nothing
\* for any other step.
C13_OneSourcePerRetrievedDocument ==
  extraction.pc = "returned" =>
    LET steps == extraction.steps
        sources == extraction.sources IN
    /\ Len(sources) = DocumentsBefore(steps, Len(steps))
    /\ \A i \in 1..Len(steps) :
         \A j \in 1..Len(DocumentsOf(steps[i])) :
           LET doc == DocumentsOf(steps[i])[j]
               source == sources[DocumentsBefore(steps, i - 1) + j] IN
           /\ source.content = doc.page_content
           /\ source.title =
                IF doc.has_metadata /\ "title" \in DOMAIN doc.metadata
                  THEN doc.metadata["title"] ELSE None
           /\ source.url =
                IF doc.has_metadata /\ "url" \in DOMAIN doc.metadata
                  THEN doc.metadata["url"] ELSE None

\* C13 witness: five steps, only the second a retrieval step, with three
\* documents; three Sources are returned.
C13_Witness ==
  /\ extraction.pc = "returned"
  /\ Len(extraction.steps) = 5
  /\ \A i \in 1..5 : IsRetrievalResult(extraction.steps[i]) <=> i = 2
  /\ Len(extraction.steps[2][2].documents) = 3
  /\ \E i \in 1..5 : Len(extraction.steps[i]) > 1
                      /\ extraction.steps[i][1].tool # RetrievalTool
                      /\ extraction.steps[i][2].documents # <<>>
  /\ Len(extraction.sources) = 3
\* C12: a returned process_query call has invoked only the augmented agent
\* and returns its output (augmented-only), or only the plain agent and
\* returns its output (plain-only), or, whenever use_dual_response is set,
\* both agents, and its envelope carries both outputs.
C12_ThreeModes ==
  agent_call.pc = "done" =>
    LET c == agent_call
        carried == {c.result.output, c.result.no_rag_output} IN
    /\ (c.use_dual_response) =>
         /\ c.invoked = {"rag", "plain"}
         /\ c.rag_output \in carried
         /\ c.non_rag_output \in carried
    /\ (~c.use_dual_response /\ c.use_rag) =>
         c.invoked = {"rag"} /\ c.result.output = c.rag_output
    /\ (~c.use_dual_response /\ ~c.use_rag) =>
         c.invoked = {"plain"} /\ c.result.output = c.non_rag_output

\* The agents a process_query call has to invoke.
RequiredAgents(use_rag, use_dual_response) ==
  (IF use_rag \/ use_dual_response THEN {"rag"} ELSE {})
    \cup (IF ~use_rag \/ use_dual_response THEN {"plain"} ELSE {})

\* C20: a step of process_query leaves the session store, the histories and
\* the response cache unchanged, a started call has always invoked an agent,
\* and a returned call has invoked every agent its mode requires, whatever
\* the cache holds.
C20_ProcessQueryStateless ==
  [][agent_call' # agent_call =>
       /\ chat_histories' = chat_histories /\ heap' = heap /\ cache' = cache
       /\ agent_call'.invoked # {}
       /\ agent_call'.pc = "done" =>
            agent_call'.invoked =
              RequiredAgents(agent_call'.use_rag, agent_call'.use_dual_response)]_vars

\* C20 witness: a dual call returned its own agents' outputs for a query and
\* history chat() had cached; another call failed.
C20_Witness ==
  /\ agent_call.pc = "done"
  /\ agent_call.invoked = {"rag", "plain"}
  /\ \E f \in DOMAIN cache :
       /\ f[3] = agent_call.query /\ f[2] = agent_call.history
       /\ cache[f].rag_response # agent_call.rag_output
Suspended(r) == task[r].pc \in {"await_rag", "await_plain"}

\* C14: while a chat request for one session is suspended in a generator call,
\* every step of another session is enabled: the next request can begin for
\* it, its suspended requests can resume from either generator call and
\* complete, and a delete or a get for it can execute.
C14_SessionsNeverBlock ==
  \A r \in Requests, b \in SessionIds :
    (Suspended(r) /\ task[r].session_id # b) =>
      /\ \A q \in Requests, m \in Messages :
           (task[q].pc = "idle" /\ \A p \in Requests : p < q => task[p].pc # "idle")
             => ENABLED ChatBegin(q, b, m)
      /\ \A q \in Requests :
           (task[q].session_id = b /\ task[q].pc = "await_rag")
             => \A res \in RagResults : ENABLED RagReturn(q, res)
      /\ \A q \in Requests :
           (task[q].session_id = b /\ task[q].pc = "await_plain")
             => \A res \in PlainResults : ENABLED PlainReturn(q, res)
      /\ ENABLED DeleteChat(b)
      /\ ENABLED GetChat(b)

\* C14 witness: the request that started second, for another session, ran
\* both generator calls and completed, and its session was then deleted,
\* while the first request is still suspended in its first generator call.
C14_Witness ==
  \E r, q \in Requests :
    /\ r < q
    /\ task[r].pc = "await_rag"
    /\ task[q].pc = "done" /\ task[q].invoked = {"rag", "plain"}
    /\ task[q].session_id # task[r].session_id
    /\ last_call.op = "delete" /\ last_call.ok
    /\ last_call.session_id = task[q].session_id
\* The step in which request r's miss completes and stores its response.
StoreStep(r) == task[r].pc = "await_plain" /\ task'[r].pc = "done"

\* C15: the hash a request looks up is derived from the session's history as
\* the request found it; in the same step the request's user turn is appended
\* directly after that history, no other turn in between; the request keeps
\* that hash, and its later store adds no key but that hash.
C15_HashFromPreTurnHistory ==
  [][\A r \in Requests :
       /\ BeginStep(r) =>
            LET pre == FoundHistory(r)
                now == heap'[task'[r].chat_history]
                query_hash == generate_query_hash(task'[r].user_input, get_messages(pre),
                                                  task'[r].session_id)
            IN /\ task'[r].query_hash = query_hash
               /\ task'[r].cache_hit = (query_hash \in DOMAIN cache)
               /\ Len(now) > Len(pre)
               /\ SubSeq(now, 1, Len(pre)) = pre
               /\ now[Len(pre) + 1] = Turn("user", task'[r].user_input, r)
       /\ Started(r) => task'[r].query_hash = task[r].query_hash
       /\ StoreStep(r) => DOMAIN cache' = DOMAIN cache \cup {task[r].query_hash}]_vars

\* C15 witness: a miss that found a history of two turns stored its response
\* under the hash of those two turns, with its own two turns after them.
C15_Witness ==
  \E r \in Requests :
    /\ task[r].pc = "done" /\ task[r].stored
    /\ Len(task[r].query_hash[2]) = 2
    /\ task[r].query_hash \in DOMAIN cache
    /\ Len(heap[task[r].chat_history]) = 4
    /\ TurnsOf(r, "user") = {3} /\ TurnsOf(r, "assistant") = {4}
\* C16: in every miss, the history handed to the augmented generator and the
\* history handed to the plain generator are the same, and both end with the
\* request's own user turn.
C16_GeneratorsSeeSameHistory ==
  \A r \in Requests :
    (Started(r) /\ ~task[r].cache_hit /\ "plain" \in task[r].invoked) =>
      LET own == Turn("user", task[r].user_input, r)
          rag == task[r].rag_history
          plain == task[r].no_rag_history IN
      /\ rag = plain
      /\ rag[Len(rag)] = own
      /\ plain[Len(plain)] = own
\* C17: in every state, a miss has its assistant turn in its history exactly
\* when it has returned, in which case the turn is the last of the
\* request's turns and holds the augmented output (not the plain one), and
\* the cache holds an entry under the request's hash; and the step that
\* appends the turn is the step that stores, nothing else changing the
\* request's history object or adding a cache key.
C17_AppendAndStoreTogether ==
  [][\A r \in Requests :
       /\ (Started(r) /\ ~task[r].cache_hit) =>
            /\ (TurnsOf(r, "assistant") # {}) = (task[r].pc = "done")
            /\ task[r].pc = "done" =>
                 /\ task[r].query_hash \in DOMAIN cache
                 /\ \A i \in TurnsOf(r, "assistant") :
                      /\ heap[task[r].chat_history][i].content = task[r].rag_response.output
                      /\ heap[task[r].chat_history][i].content # task[r].result.no_rag_output
                 /\ task[r].stored =>
                      cache[task[r].query_hash].rag_response = task[r].rag_response.output
       /\ (task[r].pc = "await_plain" /\ task'[r] # task[r]) =>
            \/ task'[r].pc = "failed" /\ heap' = heap /\ cache' = cache
            \/ /\ task'[r].pc = "done"
               /\ heap'[task[r].chat_history] =
                    add_ai_message(heap[task[r].chat_history], task[r].rag_response.output, r)
               /\ task[r].query_hash \in DOMAIN cache']_vars

\* C17 witness: a miss returned with its assistant turn appended and its
\* response stored by it, while another request of the same session, which
\* shares the history object, is still suspended.
C17_Witness ==
  \E r, q \in Requests :
    /\ r # q
    /\ task[r].pc = "done" /\ ~task[r].cache_hit /\ task[r].stored
    /\ TurnsOf(r, "assistant") # {}
    /\ Suspended(q) /\ task[q].chat_history = task[r].chat_history
\* h is an initial part of g.
IsPrefix(h, g) == Len(h) <= Len(g) /\ SubSeq(g, 1, Len(h)) = h

\* C18: a ChatHistory object only grows; two requests served by the same
\* session entry (the same ChatHistory object) never derive the same hash,
\* so a request that repeats an earlier query of its session entry is a miss;
\* and a request that hits was stored for by a request of the same session
\* served by another, earlier entry, i.e. the session was deleted and
\* re-created in between.
C18_HashesDifferWithinEntry ==
  [][/\ \A o \in DOMAIN heap : o \in DOMAIN heap' /\ IsPrefix(heap[o], heap'[o])
     /\ \A r, q \in Requests :
          (r # q /\ task'[r].pc # "idle" /\ task'[q].pc # "idle"
             /\ task'[r].chat_history = task'[q].chat_history)
            => task'[r].query_hash # task'[q].query_hash
     /\ \A r \in Requests :
          (BeginStep(r) /\ task'[r].cache_hit) =>
            \E q \in Requests :
              /\ task[q].pc = "done" /\ task[q].stored
              /\ task[q].query_hash = task'[r].query_hash
              /\ task[q].session_id = task'[r].session_id
              /\ task[q].chat_history # task'[r].chat_history
              /\ task[q].chat_history \notin {chat_histories[s] : s \in DOMAIN chat_histories}]_vars

\* C18 witness: a request repeated the query an earlier, completed and cached
\* request of the same session entry had made, and was a miss, its hash
\* covering the two turns the earlier request had added.
C18_Witness ==
  \E r, q \in Requests :
    /\ r < q
    /\ task[r].pc = "done" /\ task[r].stored /\ task[r].query_hash \in DOMAIN cache
    /\ Started(q) /\ task[q].chat_history = task[r].chat_history
    /\ task[q].user_input = task[r].user_input
    /\ ~task[q].cache_hit
    /\ Len(task[q].query_hash[2]) = 2
\* C19: a session id enters the session store only in the step in which a
\* chat request for that id begins, so after a delete the id stays absent
\* until then, whatever in-flight requests of the session do; the object a
\* stored id is bound to changes only that way; and every turn in the
\* history of a stored session was appended by a request served by that very
\* entry, never by a request that began under an earlier, deleted entry.
C19_DeletedSessionNotResurrected ==
  [][/\ \A s \in AdminIds :
          (s \in DOMAIN chat_histories' /\
             (s \notin DOMAIN chat_histories \/ chat_histories'[s] # chat_histories[s]))
            => /\ s \notin DOMAIN chat_histories
               /\ \E r \in Requests : BeginStep(r) /\ task'[r].session_id = s
                                       /\ chat_histories'[s] = r
     /\ \A s \in DOMAIN chat_histories' :
          LET h == heap'[chat_histories'[s]] IN
          \A i \in 1..Len(h) :
            /\ task'[h[i].req].session_id = s
            /\ task'[h[i].req].chat_history = chat_histories'[s]]_vars

\* C19 witness: a request that was suspended when its session was deleted has
\* completed; the session has since been re-created by another request, and
\* its history holds none of the first request's turns.
C19_Witness ==
  \E r, q \in Requests :
    /\ r # q
    /\ task[r].pc = "done" /\ ~task[r].cache_hit
    /\ TurnsOf(r, "assistant") # {}
    /\ task[q].session_id = task[r].session_id
    /\ task[q].chat_history # task[r].chat_history
    /\ task[r].session_id \in DOMAIN chat_histories
    /\ chat_histories[task[r].session_id] = task[q].chat_history
    /\ \A i \in 1..Len(heap[task[q].chat_history]) :
         heap[task[q].chat_history][i].req # r

====
